---- MODULE Spec2Model ----
(***************************************************************************)
(* Model of update_contracts.py: the anchor-based patcher that rewrites    *)
(* the AgentNFA, ListingManager and PolicyGuard entries of contracts.ts.   *)
(*                                                                         *)
(* Text is a sequence of tokens.  Every token is a string standing for     *)
(* the run of characters it spells.  Each character the script searches    *)
(* for on its own (the quote, [ ] { }) is always a token of its own, and   *)
(* the anchors "address:" and "abi:" are single tokens; an entry anchor    *)
(* such as `AgentNFA: {` is the token "AgentNFA: " followed by "{".  All   *)
(* other tokens are opaque runs that contain none of those characters.     *)
(* Offsets are 0-based as in Python, and -1 is str.find's "not found".     *)
(***************************************************************************)
EXTENDS Integers, Sequences, FiniteSets, TLC

\* ------------------------------------------------------------------------
\* Bounds of the model
\* ------------------------------------------------------------------------
MaxRuns == 2
MaxScanLen == 5

\* ------------------------------------------------------------------------
\* Python string primitives
\* ------------------------------------------------------------------------
Min(S) == CHOOSE x \in S : \A y \in S : x <= y

\* slice bound normalisation of s[:k] and s[k:]
Norm(s, k) == IF k < 0 THEN (IF Len(s) + k < 0 THEN 0 ELSE Len(s) + k)
              ELSE (IF k > Len(s) THEN Len(s) ELSE k)

\* s[i], negative i counting from the end
At(s, i) == s[(IF i < 0 THEN Len(s) + i ELSE i) + 1]

\* s[:k]
SliceTo(s, k) == SubSeq(s, 1, Norm(s, k))

\* s[k:]
SliceFrom(s, k) == SubSeq(s, Norm(s, k) + 1, Len(s))

\* s.find(sub, start)
Find(s, sub, start) ==
  LET st == IF start < 0 THEN (IF Len(s) + start < 0 THEN 0 ELSE Len(s) + start)
            ELSE start
      cands == {i \in st..(Len(s) - Len(sub)) : SubSeq(s, i + 1, i + Len(sub)) = sub}
  IN IF cands = {} THEN -1 ELSE Min(cands)

\* ------------------------------------------------------------------------
\* Module-level constants of the script
\* ------------------------------------------------------------------------
AGENT_NFA_ADDRESS == "0xb65ca34b1526c926c75129ef934c3ba9fe6f29f6"
LISTING_MANAGER_ADDRESS == "0x71597c159007E9FF35bcF47822913cA78B182156"
POLICY_GUARD_ADDRESS == "0xf087B0e4e829109603533FA3c81BAe101e46934b"

AgentNFAMarker == <<"AgentNFA: ", "{">>
ListingManagerMarker == <<"ListingManager: ", "{">>
PolicyGuardMarker == <<"PolicyGuard: ", "{">>
addr_marker == <<"address:">>
abi_marker == <<"abi:">>
Quote == <<"\"">>

\* ------------------------------------------------------------------------
\* json.dumps(value, indent=2)
\* ------------------------------------------------------------------------
JNum(n) == [t |-> "num", n |-> n]
JStr(s) == [t |-> "str", s |-> s]
JArr(items) == [t |-> "arr", items |-> items]
JObj(members) == [t |-> "obj", members |-> members]

\* newline followed by two spaces per nesting level
Indent(d) == CASE d = 0 -> "\n"
               [] d = 1 -> "\n  "
               [] d = 2 -> "\n    "
               [] d = 3 -> "\n      "
               [] OTHER -> "\n        "

RECURSIVE Dumps(_, _)
RECURSIVE DumpItems(_, _, _)
RECURSIVE DumpMembers(_, _, _)

DumpItems(items, k, d) ==
  IF k > Len(items) THEN <<>>
  ELSE (IF k > 1 THEN <<",">> ELSE <<>>) \o <<Indent(d)>> \o Dumps(items[k], d)
       \o DumpItems(items, k + 1, d)

DumpMembers(members, k, d) ==
  IF k > Len(members) THEN <<>>
  ELSE (IF k > 1 THEN <<",">> ELSE <<>>) \o <<Indent(d)>>
       \o <<"\"", members[k][1], "\"", ": ">> \o Dumps(members[k][2], d)
       \o DumpMembers(members, k + 1, d)

Dumps(v, d) ==
  CASE v.t = "num" -> <<ToString(v.n)>>
    [] v.t = "str" -> <<"\"", v.s, "\"">>
    [] v.t = "arr" -> IF Len(v.items) = 0 THEN <<"[", "]">>
                      ELSE <<"[">> \o DumpItems(v.items, 1, d + 1) \o <<Indent(d), "]">>
    [] v.t = "obj" -> IF Len(v.members) = 0 THEN <<"{", "}">>
                      ELSE <<"{">> \o DumpMembers(v.members, 1, d + 1) \o <<Indent(d), "}">>

\* ------------------------------------------------------------------------
\* The ABI files on disk (parsed JSON values), two alternative sets
\* ------------------------------------------------------------------------
NumAbiSets == 2

AgentNfaAbiFile(k) ==
  IF k = 1 THEN JArr(<<JObj(<<<<"inputs", JArr(<<JStr("uint256")>>)>>>>)>>)
  ELSE JArr(<<>>)

ListingManagerAbiFile(k) ==
  IF k = 1 THEN JArr(<<JObj(<<<<"name", JStr("rent")>>>>), JObj(<<>>)>>)
  ELSE JArr(<<JArr(<<JNum(1)>>), JNum(2)>>)

PolicyGuardAbiFile(k) ==
  IF k = 1 THEN JArr(<<JObj(<<<<"outputs", JArr(<<>>)>>>>)>>)
  ELSE JArr(<<JNum(7)>>)

\* ------------------------------------------------------------------------
\* The contracts.ts documents the script is run on
\* ------------------------------------------------------------------------
OldAddress == <<"address:", " ", "\"", "0x0000", "\"", " as Address,">>

EntryText(name, shape) ==
  CASE shape = "absent"  -> <<>>
    [] shape = "ok"      -> <<name, "{">> \o OldAddress
                            \o <<"abi:", " ", "[", "1", "]", " as const,", "}", ",">>
    [] shape = "nested"  -> <<name, "{">> \o OldAddress
                            \o <<"abi:", " ", "[", "{", "t: ", "[", "1", "]", "}", ",",
                                 "[", "]", "]", " as const,", "}", ",">>
    [] shape = "swapped" -> <<name, "{", "abi:", " ", "[", "1", "]", " as const,">>
                            \o OldAddress \o <<"}", ",">>
    [] shape = "noaddr"  -> <<name, "{", "abi:", " ", "[", "1", "]", " as const,", "}", ",">>
    [] shape = "noabi"   -> <<name, "{">> \o OldAddress \o <<"}", ",">>
    [] shape = "unbal"   -> <<name, "{">> \o OldAddress
                            \o <<"abi:", " ", "[", "[", "1", "]", " as const,", "}", ",">>

ManagedShapes == {"absent", "ok", "nested", "swapped", "noaddr", "noabi", "unbal"}
PolicyShapes == {"absent", "ok", "noaddr"}
OtherShapes == {"absent", "ok"}

Header == <<"export const CONTRACTS = ", "{">>

TailText(k) ==
  IF k = 1 THEN <<"}", " as const;", "\n">>
  ELSE <<"}", ";", "export const CHAIN = ", "\"", "bsc", "\"">>

Document(a, l, p, o, t) ==
  Header \o EntryText("AgentNFA: ", a) \o EntryText("ListingManager: ", l)
         \o EntryText("PolicyGuard: ", p) \o EntryText("Vault: ", o) \o TailText(t)

Documents ==
  {Document(a, l, p, o, t) : a \in ManagedShapes, l \in ManagedShapes,
                             p \in PolicyShapes, o \in OtherShapes, t \in 1..2}

\* ------------------------------------------------------------------------
\* The two balanced scans and the splices
\* ------------------------------------------------------------------------
RECURSIVE ScanBracketFrom(_, _, _)
\* lines 44-50 / 69-75: for i in range(i, len(content)) with the running count
ScanBracketFrom(c, i, count) ==
  IF i >= Len(c) THEN -1
  ELSE IF At(c, i) = "[" THEN ScanBracketFrom(c, i + 1, count + 1)
  ELSE IF At(c, i) = "]"
       THEN (IF count - 1 = 0 THEN i + 1 ELSE ScanBracketFrom(c, i + 1, count - 1))
  ELSE ScanBracketFrom(c, i + 1, count)

RECURSIVE FirstCloseFrom(_, _, _)
FirstCloseFrom(c, i, ch) ==
  IF i >= Len(c) THEN -1
  ELSE IF At(c, i) = ch THEN i + 1 ELSE FirstCloseFrom(c, i + 1, ch)

\* a scan that stops at the first "]" it meets
ScanBracket_firstClose(c, bracket_start_) == FirstCloseFrom(c, bracket_start_, "]")

\* abi_end as computed from bracket_start (count = 0, abi_end = -1 initially)
ScanBracket(c, bracket_start_) == ScanBracketFrom(c, bracket_start_, 0)

RECURSIVE ScanBraceFrom(_, _, _)
\* lines 109-115
ScanBraceFrom(c, i, count) ==
  IF i >= Len(c) THEN -1
  ELSE IF At(c, i) = "{" THEN ScanBraceFrom(c, i + 1, count + 1)
  ELSE IF At(c, i) = "}"
       THEN (IF count = 0 THEN i + 1 ELSE ScanBraceFrom(c, i + 1, count - 1))
  ELSE ScanBraceFrom(c, i + 1, count)

\* a scan that stops at the first "}" it meets
ScanBrace_firstClose(c, from) == FirstCloseFrom(c, from, "}")

\* lm_end as computed by the scan that starts right after the anchor
ScanBrace(c, from) == ScanBraceFrom(c, from, 0)

\* content[:quote_start+1] + ADDRESS + content[quote_end:]
ReplaceAddress(c, quote_start_, quote_end_, address) ==
  SliceTo(c, quote_start_ + 1) \o <<address>> \o SliceFrom(c, quote_end_)

\* content[:bracket_start] + abi + content[abi_end:]
ReplacePayload(c, bracket_start_, abi_end_, abi) ==
  SliceTo(c, bracket_start_) \o abi \o SliceFrom(c, abi_end_)

\* lines 117-126: if lm_end != -1: content = content[:lm_end] + block + content[lm_end:]
InsertAfter(c, lm_end_, block) ==
  IF lm_end_ # -1 THEN SliceTo(c, lm_end_) \o block \o SliceFrom(c, lm_end_) ELSE c

\* the f-string of lines 120-125
policy_guard_str(abi) ==
  <<",", "\n  ", "PolicyGuard: ", "{", "\n    ", "address:", " ", "\"",
    POLICY_GUARD_ADDRESS, "\"", " as Address,", "\n    ", "abi:", " ">>
  \o abi \o <<" as const,", "\n  ", "}", ",", "\n">>

\* ------------------------------------------------------------------------
\* State
\* ------------------------------------------------------------------------
VARIABLES
  file,                 \* contents of CONTRACTS_PATH on disk
  orig,                 \* contents of CONTRACTS_PATH when the current run started
  abi_set,              \* which set of ABI files is on disk
  run,                  \* number of the current invocation of the script
  pc,                   \* position of the script
  err,                  \* exception that ended the run, "none" otherwise
  written,              \* number of writes to CONTRACTS_PATH in the current run
  processed,            \* blocks 1., 2., 3. of update_contracts gone through in this run
  content,              \* the buffer
  agent_nfa_abi, listing_manager_abi, policy_guard_abi,
  abi_marker_bound,     \* whether the local name abi_marker has been assigned
  start_idx, addr_start, quote_start, quote_end,
  abi_start, bracket_start, abi_end, lm_idx, lm_end

disk == <<file, orig, abi_set, run>>
abis == <<agent_nfa_abi, listing_manager_abi, policy_guard_abi>>
addr_locals == <<addr_start, quote_start, quote_end>>
abi_locals == <<abi_start, bracket_start, abi_end>>
lm_locals == <<lm_idx, lm_end>>
vars == <<file, orig, abi_set, run, pc, err, written, processed, content,
          agent_nfa_abi, listing_manager_abi, policy_guard_abi, abi_marker_bound,
          start_idx, addr_start, quote_start, quote_end,
          abi_start, bracket_start, abi_end, lm_idx, lm_end>>

\* value of a local name that has not been assigned yet
Unbound == -2

FreshLocals ==
  /\ content = <<>>
  /\ agent_nfa_abi = <<>> /\ listing_manager_abi = <<>> /\ policy_guard_abi = <<>>
  /\ abi_marker_bound = FALSE
  /\ start_idx = Unbound /\ addr_start = Unbound /\ quote_start = Unbound
  /\ quote_end = Unbound /\ abi_start = Unbound /\ bracket_start = Unbound
  /\ abi_end = Unbound /\ lm_idx = Unbound /\ lm_end = Unbound

Init ==
  /\ file \in Documents
  /\ orig = file
  /\ abi_set \in 1..NumAbiSets
  /\ run = 1
  /\ pc = "read"
  /\ err = "none"
  /\ written = 0
  /\ processed = {}
  /\ FreshLocals

\* an exception that is swallowed: the script carries on to the write
Raise_swallowed(e) == pc' = "write" /\ err' = e

\* an exception propagates out of update_contracts: nothing after it runs
Raise(e) == pc' = "failed" /\ err' = e

\* lines 14-15
ReadContracts ==
  /\ pc = "read"
  /\ \E opened \in BOOLEAN :
       IF opened THEN content' = file /\ pc' = "load" /\ err' = err
       ELSE content' = content /\ Raise("FileNotFoundError")
  /\ UNCHANGED <<disk, written, processed, abis, abi_marker_bound, start_idx,
                 addr_locals, abi_locals, lm_locals>>

\* lines 18-25
LoadAbis ==
  /\ pc = "load"
  /\ \E outcome \in {"ok", "FileNotFoundError", "JSONDecodeError"} :
       IF outcome = "ok"
       THEN /\ agent_nfa_abi' = Dumps(AgentNfaAbiFile(abi_set), 0)
            /\ listing_manager_abi' = Dumps(ListingManagerAbiFile(abi_set), 0)
            /\ policy_guard_abi' = Dumps(PolicyGuardAbiFile(abi_set), 0)
            /\ pc' = "agent_addr" /\ err' = err
       ELSE UNCHANGED abis /\ Raise(outcome)
  /\ UNCHANGED <<disk, written, processed, content, abi_marker_bound, start_idx,
                 addr_locals, abi_locals, lm_locals>>

\* lines 28-35 (marker AgentNFA), 55-62 (ListingManager)
UpdateAddress(marker, address, pcFound, pcAbsent, name) ==
  LET si == Find(content, marker, 0)
      as == Find(content, addr_marker, si)
      qs == Find(content, Quote, as)
      qe == Find(content, Quote, qs + 1)
  IN /\ start_idx' = si
     /\ IF si # -1
        THEN /\ addr_start' = as /\ quote_start' = qs /\ quote_end' = qe
             /\ content' = ReplaceAddress(content, qs, qe, address)
             /\ pc' = pcFound
             /\ processed' = processed
        ELSE /\ UNCHANGED <<addr_locals, content>>
             /\ pc' = pcAbsent
             /\ processed' = processed \cup {name}
     /\ UNCHANGED <<disk, err, written, abis, abi_marker_bound, abi_locals, lm_locals>>

\* lines 38-52 (marker AgentNFA), 64-77 (ListingManager, which does not assign abi_marker)
UpdateAbi(marker, abi, assigns, pcNext, name) ==
  LET si == Find(content, marker, 0)
      ab == Find(content, abi_marker, si)
      bs == Find(content, <<"[">>, ab)
      ae == ScanBracket(content, bs)
  IN /\ start_idx' = si
     /\ IF assigns \/ abi_marker_bound
        THEN /\ abi_marker_bound' = TRUE
             /\ abi_start' = ab /\ bracket_start' = bs /\ abi_end' = ae
             /\ content' = IF ae # -1 THEN ReplacePayload(content, bs, ae, abi) ELSE content
             /\ pc' = pcNext /\ err' = err
             /\ processed' = processed \cup {name}
        ELSE /\ UNCHANGED <<abi_marker_bound, abi_locals, content, processed>>
             /\ Raise("UnboundLocalError")
     /\ UNCHANGED <<disk, written, abis, addr_locals, lm_locals>>

UpdateAgentNfaAddress ==
  /\ pc = "agent_addr"
  /\ UpdateAddress(AgentNFAMarker, AGENT_NFA_ADDRESS, "agent_abi", "listing_addr", "AgentNFA")

UpdateAgentNfaAbi ==
  /\ pc = "agent_abi"
  /\ UpdateAbi(AgentNFAMarker, agent_nfa_abi, TRUE, "listing_addr", "AgentNFA")

UpdateListingManagerAddress ==
  /\ pc = "listing_addr"
  /\ UpdateAddress(ListingManagerMarker, LISTING_MANAGER_ADDRESS, "listing_abi", "policy",
                   "ListingManager")

UpdateListingManagerAbi ==
  /\ pc = "listing_abi"
  /\ UpdateAbi(ListingManagerMarker, listing_manager_abi, FALSE, "policy", "ListingManager")

\* lines 80-126
UpdatePolicyGuard ==
  /\ pc = "policy"
  /\ LET si == Find(content, PolicyGuardMarker, 0)
         as == Find(content, addr_marker, si)
         qs == Find(content, Quote, as)
         qe == Find(content, Quote, qs + 1)
         li == Find(content, ListingManagerMarker, 0)
         le == ScanBrace(content, li + Len(ListingManagerMarker))
     IN /\ start_idx' = si
        /\ IF si # -1
           THEN /\ addr_start' = as /\ quote_start' = qs /\ quote_end' = qe
                /\ content' = ReplaceAddress(content, qs, qe, POLICY_GUARD_ADDRESS)
                /\ UNCHANGED lm_locals
           ELSE /\ UNCHANGED addr_locals
                /\ lm_idx' = li
                /\ IF li # -1
                   THEN /\ lm_end' = le
                        /\ content' = InsertAfter(content, le, policy_guard_str(policy_guard_abi))
                   ELSE UNCHANGED <<lm_end, content>>
  /\ pc' = "write"
  /\ processed' = processed \cup {"PolicyGuard"}
  /\ UNCHANGED <<disk, err, written, abis, abi_marker_bound, abi_locals>>

\* lines 128-131
WriteContracts ==
  /\ pc = "write"
  /\ file' = content
  /\ written' = written + 1
  /\ pc' = "done"
  /\ UNCHANGED <<orig, abi_set, run, err, processed, content, abis, abi_marker_bound,
                 start_idx, addr_locals, abi_locals, lm_locals>>

\* the script is invoked again on the file the previous run wrote
RunAgain ==
  /\ pc = "done"
  /\ run < MaxRuns
  /\ run' = run + 1
  /\ orig' = file
  /\ pc' = "read"
  /\ written' = 0
  /\ processed' = {}
  /\ content' = <<>>
  /\ agent_nfa_abi' = <<>> /\ listing_manager_abi' = <<>> /\ policy_guard_abi' = <<>>
  /\ abi_marker_bound' = FALSE
  /\ start_idx' = Unbound /\ addr_start' = Unbound /\ quote_start' = Unbound
  /\ quote_end' = Unbound /\ abi_start' = Unbound /\ bracket_start' = Unbound
  /\ abi_end' = Unbound /\ lm_idx' = Unbound /\ lm_end' = Unbound
  /\ UNCHANGED <<file, abi_set, err>>

Next ==
  \/ ReadContracts
  \/ LoadAbis
  \/ UpdateAgentNfaAddress
  \/ UpdateAgentNfaAbi
  \/ UpdateListingManagerAddress
  \/ UpdateListingManagerAbi
  \/ UpdatePolicyGuard
  \/ WriteContracts
  \/ RunAgain

Spec == Init /\ [][Next]_vars

\* ------------------------------------------------------------------------
\* The scans on their own: every buffer over the delimiters, up to MaxScanLen
\* tokens, optionally behind the fallback anchor
\* ------------------------------------------------------------------------
ScanAlphabet == {"[", "]", "{", "}"}
ScanBodies == UNION {[1..n -> ScanAlphabet] : n \in 0..MaxScanLen}
ScanPrefixes == {<<>>, ListingManagerMarker}

ScanInit ==
  /\ content \in {p \o b : p \in ScanPrefixes, b \in ScanBodies}
  /\ orig = content
  /\ file = content
  /\ abi_set = 1
  /\ run = 1
  /\ pc = "scan"
  /\ err = "none"
  /\ written = 0
  /\ processed = {}
  /\ agent_nfa_abi = Dumps(AgentNfaAbiFile(1), 0)
  /\ listing_manager_abi = Dumps(ListingManagerAbiFile(1), 0)
  /\ policy_guard_abi = Dumps(PolicyGuardAbiFile(1), 0)
  /\ abi_marker_bound = TRUE
  /\ start_idx = Unbound /\ addr_start = Unbound /\ quote_start = Unbound
  /\ quote_end = Unbound /\ abi_start = Unbound /\ bracket_start = Unbound
  /\ abi_end = Unbound /\ lm_idx = Unbound /\ lm_end = Unbound

\* lines 42-52 applied at any "[" of the buffer
ScanPayload ==
  /\ pc = "scan"
  /\ \E bs \in 0..(Len(content) - 1) :
       /\ At(content, bs) = "["
       /\ bracket_start' = bs
       /\ abi_end' = ScanBracket(content, bs)
       /\ content' = IF abi_end' # -1
                     THEN ReplacePayload(content, bs, abi_end', agent_nfa_abi)
                     ELSE content
  /\ pc' = "scanned_bracket"
  /\ UNCHANGED <<disk, err, written, processed, abis, abi_marker_bound, start_idx,
                 addr_locals, abi_start, lm_locals>>

\* lines 104-126 applied to the buffer
ScanFallbackEntry ==
  /\ pc = "scan"
  /\ lm_idx' = Find(content, ListingManagerMarker, 0)
  /\ lm_idx' # -1
  /\ lm_end' = ScanBrace(content, lm_idx' + Len(ListingManagerMarker))
  /\ content' = InsertAfter(content, lm_end', policy_guard_str(policy_guard_abi))
  /\ pc' = "scanned_brace"
  /\ UNCHANGED <<disk, err, written, processed, abis, abi_marker_bound, start_idx,
                 addr_locals, abi_locals>>

ScanNext == ScanPayload \/ ScanFallbackEntry

ScanSpec == ScanInit /\ [][ScanNext]_vars

\* ------------------------------------------------------------------------
\* Reference notions the properties are stated with
\* ------------------------------------------------------------------------
Count(c, a, b, ch) == Cardinality({k \in a..b : At(c, k) = ch})

\* position j holds the close delimiter that matches the open delimiter at position open
Closes(c, open, j, oc, cc) ==
  /\ j > open /\ j < Len(c)
  /\ At(c, j) = cc
  /\ Count(c, open, j, oc) = Count(c, open, j, cc)
  /\ \A k \in open..(j - 1) : Count(c, open, k, oc) > Count(c, open, k, cc)

HasClose(c, open, oc, cc) == \E j \in 0..(Len(c) - 1) : Closes(c, open, j, oc, cc)
CloseOf(c, open, oc, cc) == CHOOSE j \in 0..(Len(c) - 1) : Closes(c, open, j, oc, cc)

Present(c, marker) == Find(c, marker, 0) # -1

\* position of the "}" that ends the entry whose anchor is at si (end of buffer if unclosed)
SpanEnd(c, si, marker) ==
  LET open == si + Len(marker) - 1
  IN IF HasClose(c, open, "{", "}") THEN CloseOf(c, open, "{", "}") ELSE Len(c)

Managed == {"AgentNFA", "ListingManager", "PolicyGuard"}
MarkerOf(name) == CASE name = "AgentNFA" -> AgentNFAMarker
                    [] name = "ListingManager" -> ListingManagerMarker
                    [] name = "PolicyGuard" -> PolicyGuardMarker
AddressOf(name) == CASE name = "AgentNFA" -> AGENT_NFA_ADDRESS
                     [] name = "ListingManager" -> LISTING_MANAGER_ADDRESS
                     [] name = "PolicyGuard" -> POLICY_GUARD_ADDRESS
PayloadOf(name) == CASE name = "AgentNFA" -> Dumps(AgentNfaAbiFile(abi_set), 0)
                     [] name = "ListingManager" -> Dumps(ListingManagerAbiFile(abi_set), 0)
                     [] name = "PolicyGuard" -> Dumps(PolicyGuardAbiFile(abi_set), 0)

\* the entry of c anchored by marker has its address literal equal to address
HoldsAddress(c, marker, address) ==
  LET si == Find(c, marker, 0)
      e  == SpanEnd(c, si, marker)
      as == Find(c, addr_marker, si)
      qs == Find(c, Quote, as)
      qe == Find(c, Quote, qs + 1)
  IN /\ si # -1 /\ as # -1 /\ qs # -1 /\ qe # -1 /\ qe < e
     /\ SubSeq(c, qs + 2, qe) = <<address>>

\* the entry of c anchored by marker has its payload block equal to abi
HoldsPayload(c, marker, abi) ==
  LET si == Find(c, marker, 0)
      e  == SpanEnd(c, si, marker)
      ab == Find(c, abi_marker, si)
      bs == Find(c, <<"[">>, ab)
  IN /\ si # -1 /\ ab # -1 /\ bs # -1 /\ bs < e
     /\ HasClose(c, bs, "[", "]")
     /\ SubSeq(c, bs + 1, CloseOf(c, bs, "[", "]") + 1) = abi

\* the block an insert of the entry called name would splice in
EntryBlock(name) ==
  <<",", "\n  ", MarkerOf(name)[1], "{", "\n    ", "address:", " ", "\"",
    AddressOf(name), "\"", " as Address,", "\n    ", "abi:", " ">>
  \o PayloadOf(name) \o <<" as const,", "\n  ", "}", ",", "\n">>

IOErrors == {"FileNotFoundError", "JSONDecodeError"}

\* ------------------------------------------------------------------------
\* Properties
\* ------------------------------------------------------------------------

\* C1: a second run over the file the first run wrote leaves the file
\* byte-identical (same addresses, same payloads).
Idempotence == (run >= 2 /\ pc = "done") => file = orig

\* the address step spliced inside the span of the entry anchored by marker
AddressStepLocal(marker) ==
  LET si == Find(content, marker, 0)
      e  == SpanEnd(content, si, marker)
  IN /\ si < addr_start' /\ addr_start' < quote_start'
     /\ quote_start' < quote_end' /\ quote_end' < e
     /\ SliceTo(content', quote_start' + 1) = SliceTo(content, quote_start' + 1)
     /\ SliceFrom(content', quote_start' + 2) = SliceFrom(content, quote_end')

\* the payload step left the buffer alone or spliced inside the entry's span
PayloadStepLocal(marker) ==
  \/ content' = content
  \/ LET si == Find(content, marker, 0)
         e  == SpanEnd(content, si, marker)
     IN /\ si # -1
        /\ si < abi_start' /\ abi_start' < bracket_start'
        /\ bracket_start' < abi_end' /\ abi_end' <= e
        /\ SliceTo(content', bracket_start') = SliceTo(content, bracket_start')
        /\ SliceFrom(content', Len(content') - (Len(content) - abi_end'))
             = SliceFrom(content, abi_end')

\* C2: a step that patches an entry whose anchor is found rewrites only that
\* entry's own address literal or its own payload block: the offsets it splices
\* at lie inside the entry's span and every byte outside them is kept.
Locality ==
  [][ /\ (pc = "agent_addr" /\ pc' = "agent_abi") => AddressStepLocal(AgentNFAMarker)
      /\ (pc = "listing_addr" /\ pc' = "listing_abi") => AddressStepLocal(ListingManagerMarker)
      /\ (pc = "policy" /\ Present(content, PolicyGuardMarker) /\ pc' = "write")
           => AddressStepLocal(PolicyGuardMarker)
      /\ (pc = "agent_abi" /\ pc' = "listing_addr") => PayloadStepLocal(AgentNFAMarker)
      /\ (pc = "listing_abi" /\ pc' = "policy") => PayloadStepLocal(ListingManagerMarker)
    ]_vars

\* C3: after a completed run every managed entry whose anchor was in the
\* document holds exactly the requested address and the requested payload.
BothFieldsReplaced ==
  pc = "done" =>
    \A name \in Managed :
      Present(orig, MarkerOf(name)) =>
        /\ HoldsAddress(file, MarkerOf(name), AddressOf(name))
        /\ HoldsPayload(file, MarkerOf(name), PayloadOf(name))

\* the step at pcAt inserts the entry called name when it is absent
InsertStep(pcAt, name) ==
  (pc = pcAt /\ ~Present(content, MarkerOf(name))
             /\ Present(content, ListingManagerMarker)
             /\ HasClose(content, Find(content, ListingManagerMarker, 0)
                                    + Len(ListingManagerMarker) - 1, "{", "}"))
  => LET e == SpanEnd(content, Find(content, ListingManagerMarker, 0), ListingManagerMarker)
     IN content' = SliceTo(content, e + 1) \o EntryBlock(name) \o SliceFrom(content, e + 1)

\* C4: the step that handles a managed name whose anchor is absent, while the
\* fallback entry ListingManager is in the buffer, splices the new entry block
\* right after the end of the fallback entry and keeps every other byte.
InsertWhenAbsent ==
  [][ /\ InsertStep("agent_addr", "AgentNFA")
      /\ InsertStep("listing_addr", "ListingManager")
      /\ InsertStep("policy", "PolicyGuard") ]_vars

\* C5: for every "[" of the buffer that is closed later, the payload scan
\* returns the offset one past the "]" that matches it, and the replaced
\* region is exactly the span from that "[" through that "]".
BalancedScanCorrect ==
  pc = "scanned_bracket" =>
    \A j \in 0..(Len(orig) - 1) :
      Closes(orig, bracket_start, j, "[", "]") =>
        /\ abi_end = j + 1
        /\ content = SubSeq(orig, 1, bracket_start) \o agent_nfa_abi
                     \o SubSeq(orig, j + 2, Len(orig))

\* the scan has passed an inner "]" and stopped at the outer one
NestedPayloadScanned ==
  /\ pc = "scanned_bracket"
  /\ abi_end # -1
  /\ \E k \in (bracket_start + 1)..(abi_end - 2) : At(orig, k) = "]"

\* the anchor is found but no address: field lies inside the entry
MissingAddress(marker) ==
  LET si == Find(content, marker, 0)
      as == Find(content, addr_marker, si)
  IN si # -1 /\ (as = -1 \/ as > SpanEnd(content, si, marker))

\* C6: when the anchor of an entry is found but no "address:" follows it
\* inside the entry, the step ends the run with AnchorNotFoundError and does
\* not touch the buffer.
FatalOnMalformed ==
  [][ ( \/ (pc = "agent_addr" /\ MissingAddress(AgentNFAMarker))
        \/ (pc = "listing_addr" /\ MissingAddress(ListingManagerMarker))
        \/ (pc = "policy" /\ MissingAddress(PolicyGuardMarker)) )
      => (pc' = "failed" /\ err' = "AnchorNotFoundError" /\ content' = content) ]_vars

\* C7: a payload scan that reaches the end of the buffer without the depth
\* returning to zero ends the run in failure.
UnbalancedIsFatal ==
  [][ (pc \in {"agent_abi", "listing_abi"} /\ bracket_start' >= 0 /\ abi_end' = -1)
      => pc' = "failed" ]_vars

\* C8: the file is written at most once per run and only after the three
\* blocks have been gone through; a run that fails never writes, so the file
\* is the one the run started from or the fully patched buffer.
AllOrNothing ==
  /\ written <= 1
  /\ written = 1 => (pc = "done" /\ processed = Managed /\ file = content)
  /\ written = 0 => file = orig
  /\ pc = "failed" => written = 0

\* a run has failed after it changed the buffer
FailedAfterEdit ==
  /\ pc = "failed"
  /\ content # <<>>
  /\ content # file

\* C9: the brace scan that starts right after the fallback anchor stops one
\* past the "}" that closes the anchor's own "{", whatever balanced nesting
\* lies in between, and the new block is spliced right there.
BraceScanCorrect ==
  pc = "scanned_brace" =>
    LET open == lm_idx + Len(ListingManagerMarker) - 1
    IN \A j \in 0..(Len(orig) - 1) :
         Closes(orig, open, j, "{", "}") =>
           /\ lm_end = j + 1
           /\ content = SubSeq(orig, 1, j + 1) \o policy_guard_str(policy_guard_abi)
                        \o SubSeq(orig, j + 2, Len(orig))

\* the scan has passed an inner "}" and stopped at the entry's own one
NestedEntryScanned ==
  /\ pc = "scanned_brace"
  /\ lm_end # -1
  /\ \E k \in (lm_idx + Len(ListingManagerMarker))..(lm_end - 2) : At(orig, k) = "}"

\* C10: when the AgentNFA anchor is absent and the ListingManager anchor is
\* present, a run whose files all load patches ListingManager, completes and
\* writes the result.
RequestIndependence ==
  (/\ ~Present(orig, AgentNFAMarker) /\ Present(orig, ListingManagerMarker)
   /\ pc \in {"done", "failed"} /\ err \notin IOErrors)
  => /\ pc = "done" /\ written = 1
     /\ HoldsAddress(file, ListingManagerMarker, LISTING_MANAGER_ADDRESS)

====
